---- MODULE Spec2Model ----
(***************************************************************************)
(* A model of tail-jsonl: the context-line buffer (context.py), the filter  *)
(* engine and line pipeline (filters.py, config.py, core.py), key          *)
(* extraction (core.py) and the statistics accumulator (stats.py).         *)
(*                                                                         *)
(* SpecContext drives one ContextBuffer with arbitrary input sequences.    *)
(* SpecFilter drives Config construction, should_include_record,           *)
(* check_if_match and print_record over bounded lines and patterns.        *)
(* SpecPopKey applies pop_key to bounded mappings and key lists.           *)
(* SpecStats drives one Statistics object with record_line calls.          *)
(* SpecLoadConfig applies _load_config (scripts.py) to bounded file values *)
(* and command-line overrides, SpecHighlight applies apply_highlighting    *)
(* (highlighter.py) to bounded texts and pattern lists, and SpecRun steps  *)
(* the run driver start (scripts.py) over a bounded input stream.          *)
(***************************************************************************)
EXTENDS Integers, Sequences, FiniteSets, TLC

\* ------------------------------------------------------------------ bounds
\* Largest `before` / `after` a ContextBuffer is constructed with.
MaxBefore == 2
MaxAfter == 2
\* Number of lines fed to one ContextBuffer.
MaxLines == 6
\* Longest rendered text handed to should_include_record directly.
MaxText == 2
\* Number of record_line calls made on one Statistics object.
MaxCalls == 4
\* Longest text handed to apply_highlighting.
MaxHlText == 3
\* Most lines the input stream of start holds.
MaxInput == 3

VARIABLES
    \* ---- ContextBuffer (context.py)
    before_count,    \* self.before_count
    after_count,     \* self.after_count
    before_buffer,   \* self.before_buffer, oldest first
    after_counter,   \* self.after_counter
    ret,             \* the value the last process_line call returned
    fed,             \* history: is_match of every call so far (line i is the i-th fed)
    outs,            \* history: the value every call returned
    \* ---- Filter engine (config.py, core.py, filters.py)
    config,            \* the Config object
    record,            \* the Record the last operation built (or NoRecord)
    formatted_output,  \* the rendered text the filters last saw
    line,              \* the raw line last given to check_if_match (or NoLine)
    op,                \* the operation that ran last
    result,            \* what it returned: "True", "False", "raised" or "none"
    skip_filter,       \* the skip_filter argument of the last print_record call
    console,           \* what the last print_record call printed, in order
    \* ---- pop_key (core.py)
    pk_given,          \* the mapping as it was handed to pop_key
    pk_data,           \* the mapping as it is now
    pk_keys,           \* the candidate keys
    pk_fallback,       \* the fallback
    pk_value,          \* what pop_key returned (None before the call)
    \* ---- Statistics (stats.py)
    total_lines,       \* self.total_lines
    parsed_lines,      \* self.parsed_lines
    parse_errors,      \* self.parse_errors
    filtered_lines,    \* self.filtered_lines
    level_counts,      \* self.level_counts (a Counter: 0 for a level never seen)
    key_counts,        \* self.key_counts (a Counter)
    st_record,         \* the record argument of the last record_line call
    st_filtered,       \* its filtered argument
    \* ---- _load_config (scripts.py)
    lc_user_config,    \* user_config: what the configuration file holds
    lc_args,           \* the keyword arguments of the call (the CLI overrides)
    lc_config,         \* the Config object the call built
    lc_outcome,        \* "none" before the call, then "returned" or "raised"
    \* ---- apply_highlighting (highlighter.py)
    hl_text,           \* the text argument
    hl_config,         \* the config argument
    hl_result,         \* what the call returned or raised (NotCalled before it)
    \* ---- start (scripts.py)
    run_options,       \* options: the parsed statistics flags
    run_config,        \* config, as _load_config returned it
    run_stats,         \* stats: FALSE for None, TRUE for the Statistics object
    run_input,         \* the lines of the input stream not read yet
    run_read,          \* how many lines the loop has taken from the stream
    run_pc             \* where start is: "init", "loop", "summary", "done" or the error raised

ctxvars == <<before_count, after_count, before_buffer, after_counter, ret, fed, outs>>

fltvars == <<config, record, formatted_output, line, op, result, skip_filter, console>>

popvars == <<pk_given, pk_data, pk_keys, pk_fallback, pk_value>>

stvars == <<total_lines, parsed_lines, parse_errors, filtered_lines, level_counts,
            key_counts, st_record, st_filtered>>

loadvars == <<lc_user_config, lc_args, lc_config, lc_outcome>>

hlvars == <<hl_text, hl_config, hl_result>>

runvars == <<run_options, run_config, run_stats, run_input, run_read, run_pc>>

vars == <<ctxvars, fltvars, popvars, stvars, loadvars, hlvars, runvars>>

\* ================================================================== values
\* Text is a sequence of characters (one-character strings; a multi-character
\* token such as "<no timestamp>" stands for a run of characters that no
\* pattern of the model splits).
Alphabet == {"a", "A", "b"}

\* str.lower(), per character.
LowerChar(c) == IF c = "A" THEN "a" ELSE IF c = "B" THEN "b" ELSE c

Lower(s) == [i \in 1..Len(s) |-> LowerChar(s[i])]

\* Every text over the alphabet of at most n characters.
Strings(n) == UNION {[1..k -> Alphabet] : k \in 0..n}

\* Python's None / an optional value.
None == <<>>

Some(x) == <<x>>

IsSome(opt) == Len(opt) = 1

\* The value of an optional that holds one.
Val(opt) == opt[1]

\* Decoded JSON values.  A str holds its characters, a number its digits, an
\* object its (key, value) entries in insertion order, as a Python dict does.
\* A key is its sequence of dot-separated segments: <<"error", "stack">> is
\* the key 'error.stack'.  JSON null decodes to None.
Str(s) == [t |-> "str", s |-> s]

Num(s) == [t |-> "num", s |-> s]

Null == [t |-> "null", s |-> <<>>]

\* true / false, held as Python displays them.
Bool(b) == [t |-> "bool", s |-> IF b THEN <<"True">> ELSE <<"False">>]

Obj(d) == [t |-> "obj", d |-> d]

List(l) == [t |-> "list", l |-> l]

Entry(k, v) == [k |-> k, v |-> v]

\* key in d
DictHas(d, k) == \E i \in 1..Len(d) : d[i].k = k

DictIndex(d, k) == CHOOSE i \in 1..Len(d) : d[i].k = k

\* d.get(k): the value, or None.
DictGet(d, k) == IF DictHas(d, k) THEN d[DictIndex(d, k)].v ELSE Null

\* del d[k]
DictRemove(d, k) == SelectSeq(d, LAMBDA e : e.k # k)

\* d[k] = v: in place for a key already there, else appended.
DictSet(d, k, v) ==
    IF DictHas(d, k)
    THEN [d EXCEPT ![DictIndex(d, k)] = Entry(k, v)]
    ELSE Append(d, Entry(k, v))

\* '.' in key
IsDotted(key) == Len(key) > 1

\* The text of a key: its segments joined by '.'.
RECURSIVE KeyText(_)
KeyText(key) ==
    IF Len(key) = 0 THEN <<>>
    ELSE IF Len(key) = 1 THEN <<key[1]>>
    ELSE <<key[1], ".">> \o KeyText(Tail(key))

\* dotted.get(value, key): descend through mappings by successive segments;
\* an absent segment or a non-mapping intermediate gives None.
RECURSIVE DottedGetValue(_, _)
DottedGetValue(val, segs) ==
    IF segs = <<>> THEN val
    ELSE IF val.t = "obj"
         THEN DottedGetValue(DictGet(val.d, <<Head(segs)>>), Tail(segs))
         ELSE Null

DottedGet(d, key) == DottedGetValue(Obj(d), key)

\* The path of the key exists in the value, whatever it holds (null too).
RECURSIVE DottedPresent(_, _)
DottedPresent(val, segs) ==
    IF segs = <<>> THEN TRUE
    ELSE /\ val.t = "obj"
         /\ DictHas(val.d, <<Head(segs)>>)
         /\ DottedPresent(DictGet(val.d, <<Head(segs)>>), Tail(segs))

\* dotted.remove(d, key): delete the leaf from its immediate parent mapping.
RECURSIVE DottedRemove(_, _)
DottedRemove(d, segs) ==
    IF segs = <<>> THEN d
    ELSE IF Len(segs) = 1 THEN DictRemove(d, <<segs[1]>>)
    ELSE LET child == DictGet(d, <<Head(segs)>>)
         IN IF child.t = "obj"
            THEN DictSet(d, <<Head(segs)>>, Obj(DottedRemove(child.d, Tail(segs))))
            ELSE d

\* repr(value) and str(value).
RECURSIVE PyRepr(_)
RECURSIVE ReprItems(_)
RECURSIVE ReprEntries(_)
ReprItems(l) ==
    IF l = <<>> THEN <<>>
    ELSE PyRepr(Head(l)) \o (IF Len(l) > 1 THEN <<",", " ">> ELSE <<>>)
         \o ReprItems(Tail(l))

ReprEntries(d) ==
    IF d = <<>> THEN <<>>
    ELSE <<"'">> \o KeyText(Head(d).k) \o <<"'", ":", " ">> \o PyRepr(Head(d).v)
         \o (IF Len(d) > 1 THEN <<",", " ">> ELSE <<>>) \o ReprEntries(Tail(d))

PyRepr(val) ==
    CASE val.t = "str" -> <<"'">> \o val.s \o <<"'">>
      [] val.t = "num" -> val.s
      [] val.t = "null" -> <<"None">>
      [] val.t = "bool" -> val.s
      [] val.t = "list" -> <<"[">> \o ReprItems(val.l) \o <<"]">>
      [] val.t = "obj" -> <<"{">> \o ReprEntries(val.d) \o <<"}">>

PyStr(val) == IF val.t = "str" THEN val.s ELSE PyRepr(val)

\* fnmatch.fnmatch(name, pat) on POSIX: '*' matches any run, '?' any one
\* character, anything else itself; the whole name must match.
RECURSIVE FnMatch(_, _)
FnMatch(name, pat) ==
    IF pat = <<>> THEN name = <<>>
    ELSE IF Head(pat) = "*"
         THEN FnMatch(name, Tail(pat)) \/ (name # <<>> /\ FnMatch(Tail(name), pat))
         ELSE /\ name # <<>>
              /\ (Head(pat) = "?" \/ Head(pat) = Head(name))
              /\ FnMatch(Tail(name), Tail(pat))

\* re.compile raises re.error on a pattern that is no regular expression:
\* here one with an unterminated character set.
ValidRegex(pattern) == \A i \in 1..Len(pattern) : pattern[i] # "["

\* A compiled regular expression of literal characters: re.compile(pattern,
\* flags), flags being re.IGNORECASE or 0.
Compile(pattern, ignorecase) == [pattern |-> pattern, ignorecase |-> ignorecase]

\* regex.search(text) is not None: the pattern occurs somewhere in the text.
RegexSearch(re, text) ==
    LET p == IF re.ignorecase THEN Lower(re.pattern) ELSE re.pattern
        t == IF re.ignorecase THEN Lower(text) ELSE text
    IN \E i \in 0..(Len(t) - Len(p)) : SubSeq(t, i + 1, i + Len(p)) = p

\* ================================================================== Config

\* Keys() defaults (config.py 23-27).
KeysTimestamp == << <<"timestamp">>, <<"time">>, <<"record", "time", "repr">> >>

KeysLevel == << <<"level">>, <<"levelname">>, <<"record", "level", "name">> >>

KeysMessage == << <<"event">>, <<"message">>, <<"msg">>, <<"record", "message">> >>

KeysOnOwnLine == << <<"text">>, <<"exception">>, <<"error", "stack">> >>

\* Keys.__post_init__: the cached keys that contain '.'.
DottedKeys(on_own_line) == SelectSeq(on_own_line, IsDotted)

DefaultKeys ==
    [timestamp |-> KeysTimestamp, level |-> KeysLevel, message |-> KeysMessage,
     on_own_line |-> KeysOnOwnLine, dotted_keys |-> DottedKeys(KeysOnOwnLine)]

\* Python truthiness of an optional str or list: None, '' and [] are falsy.
Truthy(opt) == IsSome(opt) /\ Val(opt) # <<>>

\* Config.__post_init__ (config.py 72-78): a pattern is compiled when truthy.
CompiledReNotNone(pattern, case_insensitive) ==
    IF IsSome(pattern) THEN Some(Compile(Val(pattern), case_insensitive)) ELSE None

CompiledRe(pattern, case_insensitive) ==
    IF Truthy(pattern) /\ ValidRegex(Val(pattern))
    THEN Some(Compile(Val(pattern), case_insensitive))
    ELSE None

\* Config.__post_init__ raises re.error out of re.compile (config.py 76, 78);
\* nothing catches it, so the constructor call raises.
PostInitSwallowsError(include_pattern, exclude_pattern) == FALSE

PostInitRaises(include_pattern, exclude_pattern) ==
    \/ Truthy(include_pattern) /\ ~ValidRegex(Val(include_pattern))
    \/ Truthy(exclude_pattern) /\ ~ValidRegex(Val(exclude_pattern))

\* Config(include_pattern=, exclude_pattern=, field_selectors=,
\* case_insensitive=) with every other field at its default.  error tells
\* how the constructor call ended: "none" when it returned the object,
\* "re.error" when it raised.
NewConfig(include_pattern, exclude_pattern, field_selectors, case_insensitive) ==
    [keys |-> DefaultKeys,
     debug |-> FALSE,
     include_pattern |-> include_pattern,
     exclude_pattern |-> exclude_pattern,
     field_selectors |-> field_selectors,
     case_insensitive |-> case_insensitive,
     include_re |-> CompiledRe(include_pattern, case_insensitive),
     exclude_re |-> CompiledRe(exclude_pattern, case_insensitive),
     error |-> IF PostInitRaises(include_pattern, exclude_pattern)
               THEN "re.error" ELSE "none"]

\* Config(debug=True, ...)
WithDebug(cfg) == [cfg EXCEPT !.debug = TRUE]

\* ==================================================================== core

NoTimestamp == <<"<no timestamp>">>

NoMessage == <<"<no message>">>

\* _dot_pop (core.py 18-26): the value returned (None when the candidate does
\* not supply one) and the mapping as the call leaves it.  dotted.get on a
\* value that is no mapping finds nothing.
DotPopStringifiesAll(data, key) ==
    LET value == DottedGetValue(data, key)
    IN IF value.t = "str"
       THEN [value |-> IF value.s # <<>> THEN Some(value.s) ELSE None,
             data |-> Obj(DottedRemove(data.d, key))]
       ELSE IF DottedPresent(data, key)
       THEN [value |-> Some(PyStr(value)), data |-> Obj(DottedRemove(data.d, key))]
       ELSE [value |-> None, data |-> data]

DotPopRemovesParent(data, key) ==
    LET value == DottedGetValue(data, key)
    IN IF value.t = "str"
       THEN [value |-> IF value.s # <<>> THEN Some(value.s) ELSE None,
             data |-> Obj(DictRemove(data.d, <<Head(key)>>))]
       ELSE IF value.t = "list"
       THEN [value |-> Some(PyStr(value)), data |-> Obj(DictRemove(data.d, <<Head(key)>>))]
       ELSE [value |-> None, data |-> data]

DotPop(data, key) ==
    LET value == DottedGetValue(data, key)
    IN IF value.t = "str"
       THEN [value |-> IF value.s # <<>> THEN Some(value.s) ELSE None,
             data |-> Obj(DottedRemove(data.d, key))]
       ELSE IF value.t = "list"
       THEN [value |-> Some(PyStr(value)), data |-> Obj(DottedRemove(data.d, key))]
       ELSE [value |-> None, data |-> data]

\* _pop_key (core.py 29-34); index counts from 1 here.
RECURSIVE PopKeyAtKeepsEmpty(_, _, _, _)
PopKeyAtKeepsEmpty(data, keys, index, fallback) ==
    IF index > Len(keys) THEN [value |-> fallback, data |-> data]
    ELSE LET r == DotPop(data, keys[index])
         IN IF DottedGetValue(data, keys[index]).t = "str"
            THEN [value |-> DottedGetValue(data, keys[index]).s, data |-> r.data]
            ELSE IF Truthy(r.value)
            THEN [value |-> Val(r.value), data |-> r.data]
            ELSE PopKeyAtKeepsEmpty(r.data, keys, index + 1, fallback)

RECURSIVE PopKeyAt(_, _, _, _)
PopKeyAt(data, keys, index, fallback) ==
    IF index > Len(keys) THEN [value |-> fallback, data |-> data]
    ELSE LET r == DotPop(data, keys[index])
         IN IF Truthy(r.value)
            THEN [value |-> Val(r.value), data |-> r.data]
            ELSE PopKeyAt(r.data, keys, index + 1, fallback)

\* pop_key (core.py 37-39).
PopKey(data, keys, fallback) == PopKeyAt(data, keys, 1, fallback)

\* Record.from_line (core.py 51-59): the three fields are popped in order
\* from the same mapping, which becomes the record's data.
RecordFromLine(data, cfg) ==
    LET ts == PopKey(data, cfg.keys.timestamp, NoTimestamp)
        lv == PopKey(ts.data, cfg.keys.level, <<>>)
        ms == PopKey(lv.data, cfg.keys.message, NoMessage)
    IN [timestamp |-> ts.value, level |-> lv.value, message |-> ms.value,
        data |-> ms.data]

\* ================================================================= filters

\* _get_field_value (filters.py 60-86): the value found (None when the key
\* does not resolve) and the record's data as the lookup leaves it; a lookup
\* reads and removes nothing.
GetFieldValuePops(rec, key) ==
    IF key = <<"timestamp">> THEN [value |-> Some(rec.timestamp), data |-> rec.data]
    ELSE IF key = <<"level">> THEN [value |-> Some(rec.level), data |-> rec.data]
    ELSE IF key = <<"message">> THEN [value |-> Some(rec.message), data |-> rec.data]
    ELSE LET value == IF IsDotted(key)
                      THEN DottedGetValue(rec.data, key)
                      ELSE DictGet(rec.data.d, key)
         IN [value |-> IF value.t # "null" THEN Some(PyStr(value)) ELSE None,
             data |-> Obj(DottedRemove(rec.data.d, key))]

GetFieldValueStringifiesNone(rec, key) ==
    IF key = <<"timestamp">> THEN [value |-> Some(rec.timestamp), data |-> rec.data]
    ELSE IF key = <<"level">> THEN [value |-> Some(rec.level), data |-> rec.data]
    ELSE IF key = <<"message">> THEN [value |-> Some(rec.message), data |-> rec.data]
    ELSE LET value == IF IsDotted(key)
                      THEN DottedGetValue(rec.data, key)
                      ELSE DictGet(rec.data.d, key)
         IN [value |-> Some(PyStr(value)), data |-> rec.data]

GetFieldValue(rec, key) ==
    IF key = <<"timestamp">> THEN [value |-> Some(rec.timestamp), data |-> rec.data]
    ELSE IF key = <<"level">> THEN [value |-> Some(rec.level), data |-> rec.data]
    ELSE IF key = <<"message">> THEN [value |-> Some(rec.message), data |-> rec.data]
    ELSE LET value == IF IsDotted(key)
                      THEN DottedGetValue(rec.data, key)
                      ELSE DictGet(rec.data.d, key)
         IN [value |-> IF value.t # "null" THEN Some(PyStr(value)) ELSE None,
             data |-> rec.data]

\* fnmatch(str(value).lower(), pattern.lower()) (filters.py 44).
SelectorMatchesCaseSensitive(value, pattern) == FnMatch(value, pattern)

SelectorMatches(value, pattern) == FnMatch(Lower(value), Lower(pattern))

\* The field-selector loop (filters.py 36-45): [ok, rec], rec being the
\* record as the lookups leave it.
RECURSIVE SelectorsPass(_, _)
SelectorsPass(rec, selectors) ==
    IF selectors = <<>> THEN [ok |-> TRUE, rec |-> rec]
    ELSE LET key == Head(selectors)[1]
             pattern == Head(selectors)[2]
             got == GetFieldValue(rec, key)
             rec2 == [rec EXCEPT !.data = got.data]
         IN IF ~IsSome(got.value) THEN [ok |-> FALSE, rec |-> rec2]
            ELSE IF ~SelectorMatches(Val(got.value), pattern)
            THEN [ok |-> FALSE, rec |-> rec2]
            ELSE SelectorsPass(rec2, Tail(selectors))

\* The include test (filters.py 48-50): TRUE when it rejects.
IncludeRejects(cfg, text) ==
    IsSome(cfg.include_re) /\ ~RegexSearch(Val(cfg.include_re), text)

\* The exclude test (filters.py 53-55): TRUE when it rejects.
ExcludeRejectsUnlessIncluded(cfg, text) ==
    /\ IsSome(cfg.exclude_re)
    /\ RegexSearch(Val(cfg.exclude_re), text)
    /\ ~(IsSome(cfg.include_re) /\ RegexSearch(Val(cfg.include_re), text))

ExcludeRejects(cfg, text) ==
    IsSome(cfg.exclude_re) /\ RegexSearch(Val(cfg.exclude_re), text)

\* should_include_record (filters.py 13-57): [result, rec].
ShouldIncludeRecord(rec, text, cfg) ==
    LET sel == IF Truthy(cfg.field_selectors)
               THEN SelectorsPass(rec, Val(cfg.field_selectors))
               ELSE [ok |-> TRUE, rec |-> rec]
    IN IF ~sel.ok THEN [result |-> FALSE, rec |-> sel.rec]
       ELSE IF IncludeRejects(cfg, text) THEN [result |-> FALSE, rec |-> sel.rec]
       ELSE IF ExcludeRejects(cfg, text) THEN [result |-> FALSE, rec |-> sel.rec]
       ELSE [result |-> TRUE, rec |-> sel.rec]

\* ------------------------------------------------- core: the line pipeline

\* An input line: text that json.loads rejects (raw), or the text of a JSON
\* value (value, as json.loads decodes it).
InvalidLine(raw) == [valid |-> FALSE, raw |-> raw, value |-> Null]

JsonLine(value) == [valid |-> TRUE, raw |-> <<>>, value |-> value]

NoLine == [valid |-> FALSE, raw |-> <<"<none>">>, value |-> Null]

NoRecord == [timestamp |-> <<>>, level |-> <<>>, message |-> <<>>, data |-> Null]

\* Python truthiness of a decoded value.
PyTruthy(val) ==
    CASE val.t = "null" -> FALSE
      [] val.t = "bool" -> val.s = <<"True">>
      [] val.t = "num" -> val.s # <<"0">>
      [] val.t = "str" -> val.s # <<>>
      [] val.t = "list" -> val.l # <<>>
      [] val.t = "obj" -> val.d # <<>>

\* corallium's get_level(name=...): the level names it knows (here 'a' in any
\* case); any other name is logging.NOTSET.
KnownLevel(level) == Lower(level) = <<"a">>

LevelName(level) == IF KnownLevel(level) THEN <<"A">> ELSE <<"NOTSET">>

\* core.py 84-85: an unknown, non-empty level is kept as data['_level_name'].
\* Raises TypeError/AttributeError outside the try when data is no mapping;
\* the callers test that first.
WithLevelName(rec) ==
    IF ~KnownLevel(rec.level) /\ rec.level # <<>>
    THEN [rec EXCEPT !.data = Obj(DictSet(rec.data.d, <<"_level_name">>, Str(rec.level)))]
    ELSE rec

\* core.py 88-91: each cached dotted key with a truthy value is promoted to a
\* top-level entry named by the whole dotted key, then removed at its leaf.
RECURSIVE PromoteDotted(_, _)
PromoteDotted(data, keys) ==
    IF keys = <<>> THEN data
    ELSE LET key == Head(keys)
             value == DottedGetValue(data, key)
         IN IF PyTruthy(value)
            THEN PromoteDotted(
                     Obj(DottedRemove(DictSet(data.d, key, Str(PyStr(value))), key)),
                     Tail(keys))
            ELSE PromoteDotted(data, Tail(keys))

\* The names of printer_kwargs (core.py 94-104); a data key equal to one of
\* them is passed on with a leading space.
PrinterKwargs ==
    {"message", "is_header", "_this_level", "_is_text", "_console", "_styles",
     "_keys_on_own_line", "timestamp"}

KwargName(key) ==
    IF Len(key) = 1 /\ key[1] \in PrinterKwargs THEN <<" ", key[1]>> ELSE KeyText(key)

SeqContains(s, x) == \E i \in 1..Len(s) : s[i] = x

\* corallium's rich_printer, as the tests show its output: the timestamp,
\* the bracketed level name, the message, then key=value for every remaining
\* field, the own-line keys after the others on lines of their own.
RECURSIVE InlineFields(_, _)
InlineFields(d, own) ==
    IF d = <<>> THEN <<>>
    ELSE (IF SeqContains(own, Head(d).k) THEN <<>>
          ELSE <<" ">> \o KwargName(Head(d).k) \o <<"=">> \o PyStr(Head(d).v))
         \o InlineFields(Tail(d), own)

RECURSIVE OwnLineFields(_, _)
OwnLineFields(d, own) ==
    IF own = <<>> THEN <<>>
    ELSE (IF DictHas(d, Head(own))
          THEN <<"\n", " ">> \o KeyText(Head(own)) \o <<":", " ">>
               \o PyStr(DictGet(d, Head(own)))
          ELSE <<>>)
         \o OwnLineFields(d, Tail(own))

RichPrinter(rec, own) ==
    rec.timestamp \o <<" ", "[">> \o LevelName(rec.level) \o <<"]", " ">>
    \o rec.message \o InlineFields(rec.data.d, own) \o OwnLineFields(rec.data.d, own)
    \o <<"\n">>

IsSpace(c) == c \in {" ", "\n"}

\* str.strip()
RECURSIVE LStrip(_)
LStrip(s) == IF s # <<>> /\ IsSpace(Head(s)) THEN LStrip(Tail(s)) ELSE s

RECURSIVE RStrip(_)
RStrip(s) ==
    IF s # <<>> /\ IsSpace(s[Len(s)]) THEN RStrip(SubSeq(s, 1, Len(s) - 1)) ELSE s

Strip(s) == LStrip(RStrip(s))

BoolStr(b) == IF b THEN "True" ELSE "False"

\* The early return of check_if_match (core.py 73-75).
NoFiltersIgnoresSelectors(cfg) == ~(IsSome(cfg.include_re) \/ IsSome(cfg.exclude_re))

NoFilters(cfg) ==
    ~(IsSome(cfg.include_re) \/ IsSome(cfg.exclude_re) \/ Truthy(cfg.field_selectors))

\* core.py 84-91: the record with its level name kept and its dotted own-line
\* keys promoted.
Prepared(rec, cfg) ==
    [rec EXCEPT !.data = PromoteDotted(WithLevelName(rec).data, cfg.keys.dotted_keys)]

\* core.py 114-117: the filters' verdict on a rendered record.
FilterRendered(rec, text, cfg) ==
    [result |-> BoolStr(ShouldIncludeRecord(rec, text, cfg).result),
     rec |-> ShouldIncludeRecord(rec, text, cfg).rec,
     text |-> text]

\* core.py 93-112: render the prepared record, strip the text.
RenderAndFilter(rec, cfg) ==
    FilterRendered(rec, Strip(RichPrinter(rec, cfg.keys.on_own_line)), cfg)

\* core.py 84-117, on the Record that Record.from_line returned.  A decoded
\* value that is no mapping passes Record.from_line untouched and raises
\* AttributeError at record.data.items() (core.py 110), outside the try.
FilterParsed(parsed, cfg) ==
    IF parsed.data.t # "obj"
    THEN [result |-> "raised", rec |-> parsed, text |-> <<>>]
    ELSE RenderAndFilter(Prepared(parsed, cfg), cfg)

\* check_if_match (core.py 62-117): [result, rec, text], rec and text being
\* the Record and the stripped rendering the filters saw, if it got there.
CheckIfMatchInvalidMatches(ln, cfg) ==
    IF NoFilters(cfg) THEN [result |-> "True", rec |-> NoRecord, text |-> <<>>]
    ELSE IF ~ln.valid THEN [result |-> "True", rec |-> NoRecord, text |-> <<>>]
    ELSE FilterParsed(RecordFromLine(ln.value, cfg), cfg)

CheckIfMatch(ln, cfg) ==
    IF NoFilters(cfg) THEN [result |-> "True", rec |-> NoRecord, text |-> <<>>]
    ELSE IF ~ln.valid THEN [result |-> "False", rec |-> NoRecord, text |-> <<>>]
    ELSE FilterParsed(RecordFromLine(ln.value, cfg), cfg)

\* str.rstrip('\n')
RECURSIVE RStripNewlines(_)
RStripNewlines(s) ==
    IF s # <<>> /\ s[Len(s)] = "\n" THEN RStripNewlines(SubSeq(s, 1, Len(s) - 1)) ELSE s

\* The debug line of a parsed record (core.py 135-143), when config.debug.
DebugParsed(rec, cfg) ==
    IF cfg.debug
    THEN << <<"DEBUG: Parsed keys - timestamp=">> \o PyRepr(Str(rec.timestamp))
            \o <<", level=">> \o PyRepr(Str(rec.level))
            \o <<", message=">> \o PyRepr(Str(rec.message)) >>
    ELSE <<>>

\* The debug line of a line that did not parse (core.py 145-150).
DebugFailed(cfg) ==
    IF cfg.debug THEN << <<"DEBUG: Failed to parse line as JSON">> >> ELSE <<>>

\* The debug lines of the promotion loop (core.py 159-168), one per promoted
\* key.
RECURSIVE DebugPromoted(_, _, _)
DebugPromoted(data, keys, cfg) ==
    IF keys = <<>> THEN <<>>
    ELSE IF PyTruthy(DottedGetValue(data, Head(keys)))
    THEN (IF cfg.debug
          THEN << <<"DEBUG: Promoting dotted key '">> \o KeyText(Head(keys))
                  \o <<"' to own line">> >>
          ELSE <<>>)
         \o DebugPromoted(PromoteDotted(data, <<Head(keys)>>), Tail(keys), cfg)
    ELSE DebugPromoted(data, Tail(keys), cfg)

\* The except branch of print_record (core.py 144-152): the line is printed
\* with its trailing whitespace stripped, whatever the filters are.
PrintInvalidFiltered(ln, cfg) ==
    IF NoFilters(cfg)
    THEN [result |-> "True", rec |-> NoRecord, text |-> <<>>,
          console |-> DebugFailed(cfg) \o <<RStrip(ln.raw)>>]
    ELSE [result |-> "False", rec |-> NoRecord, text |-> <<>>,
          console |-> DebugFailed(cfg)]

PrintInvalid(ln, cfg) ==
    [result |-> "True", rec |-> NoRecord, text |-> <<>>,
     console |-> DebugFailed(cfg) \o <<RStrip(ln.raw)>>]

\* core.py 192-201: unless skip_filter, a record the filters reject is not
\* printed; otherwise the rendering is printed without its final newlines.
\* printed holds what the call printed before.
PrintRendered(rec, text, cfg, skip, printed) ==
    IF ~skip /\ ~ShouldIncludeRecord(rec, Strip(text), cfg).result
    THEN [result |-> "False", rec |-> ShouldIncludeRecord(rec, Strip(text), cfg).rec,
          text |-> Strip(text), console |-> printed]
    ELSE [result |-> "True",
          rec |-> IF skip THEN rec ELSE ShouldIncludeRecord(rec, Strip(text), cfg).rec,
          text |-> Strip(text),
          console |-> printed \o <<RStripNewlines(text)>>]

\* core.py 154-201, on the Record that Record.from_line returned.  A decoded
\* value that is no mapping raises AttributeError at record.data.items()
\* (core.py 188), outside the try.
PrintParsed(parsed, cfg, skip) ==
    IF parsed.data.t # "obj"
    THEN [result |-> "raised", rec |-> parsed, text |-> <<>>,
          console |-> DebugParsed(parsed, cfg)]
    ELSE PrintRendered(Prepared(parsed, cfg),
                       RichPrinter(Prepared(parsed, cfg), cfg.keys.on_own_line),
                       cfg, skip,
                       DebugParsed(parsed, cfg)
                       \o DebugPromoted(WithLevelName(parsed).data,
                                        cfg.keys.dotted_keys, cfg))

\* print_record (core.py 120-201): [result, rec, text, console].
PrintRecord(ln, cfg, skip) ==
    IF ~ln.valid THEN PrintInvalid(ln, cfg)
    ELSE PrintParsed(RecordFromLine(ln.value, cfg), cfg, skip)

\* ============================================================== Statistics

\* The levels and data keys of the records given to record_line.
StatLevels == {<<"a">>, <<"b">>}

StatKeys == {<<"host">>, <<"error">>}

\* counter[key] += 1
CounterAdd(counter, key) == [counter EXCEPT ![key] = @ + 1]

\* for key in record.data.keys(): self.key_counts[key] += 1 (stats.py 47-48)
RECURSIVE CountKeys(_, _)
CountKeys(counter, d) ==
    IF d = <<>> THEN counter ELSE CountKeys(CounterAdd(counter, Head(d).k), Tail(d))

\* The counters of a Statistics object st, after self.total_lines += 1, on
\* each branch of record_line.
\* stats.py 31-33: record is None.
ParseErrorBranch(st) == [st EXCEPT !.parse_errors = @ + 1]

\* stats.py 35-38: filtered.
FilteredBranchNotParsed(st) == [st EXCEPT !.filtered_lines = @ + 1]

FilteredBranch(st) == [st EXCEPT !.filtered_lines = @ + 1, !.parsed_lines = @ + 1]

\* stats.py 40-48: kept.
KeptBranchSkipsKeys(st, rec) ==
    [st EXCEPT !.parsed_lines = @ + 1,
               !.level_counts = IF rec.level # <<>> THEN CounterAdd(@, rec.level) ELSE @]

KeptBranch(st, rec) ==
    [st EXCEPT !.parsed_lines = @ + 1,
               !.level_counts = IF rec.level # <<>> THEN CounterAdd(@, rec.level) ELSE @,
               !.key_counts = CountKeys(@, rec.data.d)]

\* Statistics.record_line (stats.py 27-48); rec is None or Some(record).
RecordLine(st, rec, filtered) ==
    IF rec = None THEN ParseErrorBranch([st EXCEPT !.total_lines = @ + 1])
    ELSE IF filtered THEN FilteredBranch([st EXCEPT !.total_lines = @ + 1])
    ELSE KeptBranch([st EXCEPT !.total_lines = @ + 1], Val(rec))

\* ============================================================ ContextBuffer

\* The "no call yet" return value.
NoReturn == [lines |-> <<>>, print |-> FALSE]

\* collections.deque(maxlen=...).append: append at the tail; a full bounded
\* deque drops its oldest element.  maxlen = 0 stands for maxlen=None.
DequeAppendUnbounded(buf, x, maxlen) == Append(buf, x)

DequeAppend(buf, x, maxlen) ==
    IF maxlen > 0 /\ Len(buf) >= maxlen
    THEN Append(Tail(buf), x)
    ELSE Append(buf, x)

\* deque(maxlen=before if before > 0 else None)
DequeMaxlenOneMore(before) == IF before > 0 THEN before + 1 ELSE 0

DequeMaxlen(before) == IF before > 0 THEN before ELSE 0

\* process_line, is_match branch (context.py 22-27).
MatchBranchNoReset(buf, counter, acount) ==
    [buffer |-> <<>>, counter |-> counter, lines |-> buf, print |-> TRUE]

MatchBranchKeepsQueue(buf, counter, acount) ==
    [buffer |-> buf, counter |-> acount, lines |-> buf, print |-> TRUE]

MatchBranch(buf, counter, acount) ==
    [buffer |-> <<>>, counter |-> acount, lines |-> buf, print |-> TRUE]

\* process_line, after-context branch (context.py 29-31).
AfterBranchBuffers(buf, counter, ln, bcount) ==
    [buffer |-> DequeAppend(buf, ln, DequeMaxlen(bcount)),
     counter |-> counter - 1, lines |-> <<>>, print |-> TRUE]

AfterBranch(buf, counter, ln, bcount) ==
    [buffer |-> buf, counter |-> counter - 1, lines |-> <<>>, print |-> TRUE]

\* process_line, buffering branch (context.py 33-36).
BufferBranchUnbounded(buf, counter, ln, bcount) ==
    [buffer |-> IF bcount > 0 THEN Append(buf, ln) ELSE buf,
     counter |-> counter, lines |-> <<>>, print |-> FALSE]

BufferBranch(buf, counter, ln, bcount) ==
    [buffer |-> IF bcount > 0
                THEN DequeAppend(buf, ln, DequeMaxlen(bcount))
                ELSE buf,
     counter |-> counter, lines |-> <<>>, print |-> FALSE]

\* The test `if self.after_counter > 0` (context.py 29).
InAfterWindowOffByOne(counter) == counter >= 0

InAfterWindow(counter) == counter > 0

\* ContextBuffer.process_line(ln, is_match) on the state (buf, counter).
ProcessLine(buf, counter, ln, is_match, bcount, acount) ==
    IF is_match THEN MatchBranch(buf, counter, acount)
    ELSE IF InAfterWindow(counter) THEN AfterBranch(buf, counter, ln, bcount)
    ELSE BufferBranch(buf, counter, ln, bcount)

\* ============================================================ _load_config

\* An attribute an object may lack: Unset when it was never assigned,
\* SetTo(v) once it was.
Unset == <<>>

SetTo(v) == <<v>>

IsSet(attr) == attr # <<>>

\* The attributes that are no field of Config (config.py 54-70): an object
\* has them only once _load_config assigned them (scripts.py 56, 59, 64-69),
\* and nothing assigns _highlight_res.
NoExtraAttributes ==
    [highlight_patterns |-> Unset, highlight_case_sensitive |-> Unset,
     highlight_res |-> Unset,
     show_stats |-> Unset, stats_only |-> Unset, stats_json |-> Unset]

\* Config.__post_init__ (config.py 72-78) called on an object that exists: a
\* truthy pattern is compiled with the flags of now, and the compiled regex
\* of a falsy pattern is left as it is.  re.compile raising ends the call.
PostInit(cfg) ==
    LET include_raises ==
            Truthy(cfg.include_pattern) /\ ~ValidRegex(Val(cfg.include_pattern))
        exclude_raises ==
            /\ ~include_raises
            /\ Truthy(cfg.exclude_pattern) /\ ~ValidRegex(Val(cfg.exclude_pattern))
    IN [cfg EXCEPT
           !.include_re =
               IF Truthy(cfg.include_pattern) /\ ~include_raises
               THEN Some(Compile(Val(cfg.include_pattern), cfg.case_insensitive))
               ELSE @,
           !.exclude_re =
               IF Truthy(cfg.exclude_pattern) /\ ~include_raises /\ ~exclude_raises
               THEN Some(Compile(Val(cfg.exclude_pattern), cfg.case_insensitive))
               ELSE @,
           !.error = IF include_raises \/ exclude_raises THEN "re.error" ELSE @]

\* Config.from_dict (config.py 80-93): a key the file lacks reads as None
\* (False for case_insensitive and debug).
FromDict(data) ==
    [NewConfig(data.include_pattern, data.exclude_pattern, data.field_selectors,
               data.case_insensitive) EXCEPT !.debug = data.debug]
    @@ NoExtraAttributes

\* One override of _load_config; none runs once an earlier step has raised.
\* scripts.py 40-41
OverrideDebug(cfg, debug) ==
    IF cfg.error = "none" /\ debug THEN [cfg EXCEPT !.debug = TRUE] ELSE cfg

\* scripts.py 42-44
OverrideInclude(cfg, include_pattern) ==
    IF cfg.error = "none" /\ IsSome(include_pattern)
    THEN PostInit([cfg EXCEPT !.include_pattern = include_pattern])
    ELSE cfg

\* scripts.py 45-47
OverrideExclude(cfg, exclude_pattern) ==
    IF cfg.error = "none" /\ IsSome(exclude_pattern)
    THEN PostInit([cfg EXCEPT !.exclude_pattern = exclude_pattern])
    ELSE cfg

\* scripts.py 48-49
OverrideSelectors(cfg, field_selectors) ==
    IF cfg.error = "none" /\ IsSome(field_selectors)
    THEN [cfg EXCEPT !.field_selectors = field_selectors]
    ELSE cfg

\* scripts.py 50-52
OverrideCase(cfg, case_insensitive) ==
    IF cfg.error = "none" /\ case_insensitive
    THEN PostInit([cfg EXCEPT !.case_insensitive = TRUE])
    ELSE cfg

\* scripts.py 55-60
OverrideHighlight(cfg, highlight_patterns, highlight_case_sensitive) ==
    LET patterns ==
            IF cfg.error = "none" /\ IsSome(highlight_patterns)
            THEN PostInit([cfg EXCEPT !.highlight_patterns = SetTo(Val(highlight_patterns))])
            ELSE cfg
    IN IF patterns.error = "none" /\ highlight_case_sensitive
       THEN PostInit([patterns EXCEPT !.highlight_case_sensitive = SetTo(TRUE)])
       ELSE patterns

\* scripts.py 63-69
OverrideStats(cfg, show_stats, stats_only, stats_json) ==
    IF cfg.error # "none" THEN cfg
    ELSE [cfg EXCEPT
             !.show_stats = IF show_stats \/ stats_only THEN SetTo(TRUE) ELSE @,
             !.stats_only = IF stats_only THEN SetTo(TRUE) ELSE @,
             !.stats_json = IF stats_json THEN SetTo(TRUE) ELSE @]

\* _load_config(config_path, **args) (scripts.py 18-71), user_config being
\* what the file at config_path holds ({} without a file).  error tells how
\* the call ended: "none" when it returned the object.
LoadConfig(user_config, args) ==
    OverrideStats(
        OverrideHighlight(
            OverrideCase(
                OverrideSelectors(
                    OverrideExclude(
                        OverrideInclude(
                            OverrideDebug(FromDict(user_config), args.debug),
                            args.include_pattern),
                        args.exclude_pattern),
                    args.field_selectors),
                args.case_insensitive),
            args.highlight_patterns, args.highlight_case_sensitive),
        args.show_stats, args.stats_only, args.stats_json)

\* _load_config has not been called yet.
NotLoaded == [error |-> "not loaded"]

\* No configuration file, no override.
EmptyUserConfig ==
    [debug |-> FALSE, include_pattern |-> None, exclude_pattern |-> None,
     field_selectors |-> None, case_insensitive |-> FALSE]

NoOverrides ==
    [debug |-> FALSE, include_pattern |-> None, exclude_pattern |-> None,
     field_selectors |-> None, case_insensitive |-> FALSE,
     highlight_patterns |-> None, highlight_case_sensitive |-> FALSE,
     show_stats |-> FALSE, stats_only |-> FALSE, stats_json |-> FALSE]

\* _load_config is not called on its own.
LoadIdle ==
    /\ lc_user_config = EmptyUserConfig
    /\ lc_args = NoOverrides
    /\ lc_config = NotLoaded
    /\ lc_outcome = "none"

\* ============================================================= highlighter

\* HIGHLIGHT_COLORS (highlighter.py 12-19)
HIGHLIGHT_COLORS == <<"yellow", "cyan", "magenta", "green", "blue", "red">>

\* Where the literal pattern of `re` begins in text, at or after pos (all
\* positions count from 0, as spans do).
MatchStarts(re, text, pos) ==
    LET p == IF re.ignorecase THEN Lower(re.pattern) ELSE re.pattern
        t == IF re.ignorecase THEN Lower(text) ELSE text
    IN {i \in pos..(Len(t) - Len(p)) : SubSeq(t, i + 1, i + Len(p)) = p}

SetMin(S) == CHOOSE x \in S : \A y \in S : x <= y

\* pattern.finditer(text) (highlighter.py 53): the spans of the matches found
\* scanning from pos, leftmost first and never overlapping; the scan moves
\* one character on after an empty match.
RECURSIVE FindIter(_, _, _)
FindIter(re, text, pos) ==
    IF MatchStarts(re, text, pos) = {} THEN <<>>
    ELSE <<[start |-> SetMin(MatchStarts(re, text, pos)),
            end |-> SetMin(MatchStarts(re, text, pos)) + Len(re.pattern)]>>
         \o FindIter(re, text,
                     IF Len(re.pattern) = 0
                     THEN SetMin(MatchStarts(re, text, pos)) + 1
                     ELSE SetMin(MatchStarts(re, text, pos)) + Len(re.pattern))

\* rich_text.stylize(style, start, end) (highlighter.py 57): the span is
\* appended to the spans of the Text; an empty span is dropped.
Stylize(spans, length, style, start, end) ==
    IF start >= length \/ end <= start THEN spans
    ELSE Append(spans, [start |-> start,
                        end |-> IF end < length THEN end ELSE length,
                        style |-> style])

\* The loop of highlighter.py 53-57 over the matches of one pattern.
RECURSIVE StylizeMatches(_, _, _, _)
StylizeMatches(spans, length, style, matches) ==
    IF matches = <<>> THEN spans
    ELSE StylizeMatches(Stylize(spans, length, style, Head(matches).start,
                                Head(matches).end),
                        length, style, Tail(matches))

\* color of highlighter.py 48, i counting from 0.
Color(i) == HIGHLIGHT_COLORS[(i % Len(HIGHLIGHT_COLORS)) + 1]

\* The loop of highlighter.py 46-57 from pattern i (counting from 0) on.
RECURSIVE HighlightFrom(_, _, _, _)
HighlightFrom(spans, text, res, i) ==
    IF i >= Len(res) THEN spans
    ELSE HighlightFrom(
             StylizeMatches(spans, Len(text), Color(i), FindIter(res[i + 1], text, 0)),
             text, res, i + 1)

\* What a call of apply_highlighting gave: kind is "str" or "Text" for the
\* value returned, or the exception raised.
NotCalled == [kind |-> "not called", plain |-> <<>>, spans |-> <<>>]

\* apply_highlighting(text, config) (highlighter.py 22-59).  Reading
\* config._highlight_res raises AttributeError on an object without that
\* attribute; None and [] are falsy.
ApplyHighlighting(text, cfg) ==
    IF ~IsSet(cfg.highlight_res)
    THEN [kind |-> "AttributeError", plain |-> <<>>, spans |-> <<>>]
    ELSE IF Val(cfg.highlight_res) = <<>>
    THEN [kind |-> "str", plain |-> text, spans |-> <<>>]
    ELSE [kind |-> "Text", plain |-> text,
          spans |-> HighlightFrom(<<>>, text, Val(cfg.highlight_res), 0)]

\* apply_highlighting is not called on its own.
HlIdle ==
    /\ hl_text = <<>>
    /\ hl_config = NotLoaded
    /\ hl_result = NotCalled

\* =================================================================== start

\* Reading an attribute: AttributeError when the object lacks it.
ReadAttr(attr) ==
    IF IsSet(attr) THEN [raised |-> FALSE, value |-> Val(attr)]
    ELSE [raised |-> TRUE, value |-> FALSE]

\* `config.show_stats or config.stats_only or config.stats_json`
\* (scripts.py 180): the operands are read left to right until one is true.
StatsWanted(cfg) ==
    IF ReadAttr(cfg.show_stats).raised \/ ReadAttr(cfg.show_stats).value
    THEN ReadAttr(cfg.show_stats)
    ELSE IF ReadAttr(cfg.stats_only).raised \/ ReadAttr(cfg.stats_only).value
    THEN ReadAttr(cfg.stats_only)
    ELSE ReadAttr(cfg.stats_json)

\* The positional parameters of print_record: line, console, config
\* (core.py 120); skip_filter is keyword-only.
PrintRecordPositional == 3

\* The positional arguments of the call in scripts.py 186: line, console,
\* config, stats.
StartPositional == 4

\* print_record(line, console, config, stats) as start calls it
\* (scripts.py 186): the call raises TypeError when it hands over more
\* positional arguments than print_record takes.  print_record itself
\* (core.py 120-201) never touches a Statistics object, so the one of start
\* is returned as it was.
StartPrintRecord(ln, cfg, st) ==
    IF StartPositional > PrintRecordPositional
    THEN [raised |-> "TypeError", printed |-> <<>>, stats |-> st]
    ELSE [raised |-> IF PrintRecord(ln, cfg, FALSE).result = "raised"
                     THEN "AttributeError" ELSE "none",
          printed |-> PrintRecord(ln, cfg, FALSE).console,
          stats |-> st]

\* The keyword arguments start hands to _load_config (scripts.py 163-175)
\* for the statistics flags of the command line.
StartArgs(options) ==
    [NoOverrides EXCEPT !.show_stats = options.show_stats,
                        !.stats_only = options.stats_only,
                        !.stats_json = options.stats_json]

\* Where start is after scripts.py 189-193, entered with `stats` and config.
AfterSummary(st, cfg) ==
    IF ~st THEN "done"
    ELSE IF ReadAttr(cfg.stats_json).raised THEN "AttributeError"
    ELSE "done"

\* start is not running.
RunIdle ==
    /\ run_options = [show_stats |-> FALSE, stats_only |-> FALSE, stats_json |-> FALSE]
    /\ run_config = NotLoaded
    /\ run_stats = FALSE
    /\ run_input = <<>>
    /\ run_read = <<>>
    /\ run_pc = "idle"

\* pop_key is not called on its own.
PopIdle ==
    /\ pk_given = Obj(<<>>)
    /\ pk_data = Obj(<<>>)
    /\ pk_keys = <<>>
    /\ pk_fallback = <<>>
    /\ pk_value = None

\* Statistics() and no record_line call.
StatsNew ==
    /\ total_lines = 0
    /\ parsed_lines = 0
    /\ parse_errors = 0
    /\ filtered_lines = 0
    /\ level_counts = [l \in StatLevels |-> 0]
    /\ key_counts = [k \in StatKeys |-> 0]
    /\ st_record = None
    /\ st_filtered = FALSE

\* No filtering goes on beside the ContextBuffer.
FltIdle ==
    /\ config = NewConfig(None, None, None, FALSE)
    /\ record = NoRecord
    /\ formatted_output = <<>>
    /\ line = NoLine
    /\ op = "Config"
    /\ result = "none"
    /\ skip_filter = FALSE
    /\ console = <<>>

\* ContextBuffer(before, after)
CtxInit ==
    /\ before_count \in 0..MaxBefore
    /\ after_count \in 0..MaxAfter
    /\ before_buffer = <<>>
    /\ after_counter = 0
    /\ ret = NoReturn
    /\ fed = <<>>
    /\ outs = <<>>
    /\ FltIdle
    /\ PopIdle
    /\ StatsNew
    /\ LoadIdle
    /\ HlIdle
    /\ RunIdle

\* One call of process_line; the line fed is named by its position.
process_line(is_match) ==
    /\ Len(fed) < MaxLines
    /\ LET ln == Len(fed) + 1
           r == ProcessLine(before_buffer, after_counter, ln, is_match,
                            before_count, after_count)
       IN /\ before_buffer' = r.buffer
          /\ after_counter' = r.counter
          /\ ret' = [lines |-> r.lines, print |-> r.print]
          /\ fed' = Append(fed, is_match)
          /\ outs' = Append(outs, [lines |-> r.lines, print |-> r.print])
    /\ UNCHANGED <<before_count, after_count, fltvars, popvars, stvars, loadvars, hlvars, runvars>>

CtxNext == \E is_match \in BOOLEAN : process_line(is_match)

SpecContext == CtxInit /\ [][CtxNext]_vars

\* ============================================================== SpecFilter

\* Patterns a Config is built with: absent, empty, one literal, or text that
\* is no regular expression.
IncludePatterns == {None, Some(<<>>), Some(<<"a">>), Some(<<"[">>)}

ExcludePatterns == {None, Some(<<>>), Some(<<"b">>), Some(<<"[">>)}

\* Field-selector lists a Config is built with.
SelectorLists ==
    {None, Some(<<>>),
     Some(<< <<<<"level">>, <<"a">>>> >>),
     Some(<< <<<<"level">>, <<"*">>>> >>),
     Some(<< <<<<"timestamp">>, <<"*">>>> >>),
     Some(<< <<<<"host">>, <<"A", "*">>>> >>),
     Some(<< <<<<"host">>, <<"*">>>> >>),
     Some(<< <<<<"error", "stack">>, <<"*">>>> >>),
     Some(<< <<<<"error", "stack">>, <<"?">>>> >>),
     Some(<< <<<<"level">>, <<"a">>>>, <<<<"host">>, <<"*">>>> >>),
     Some(<< <<<<"host">>, <<"*">>>>, <<<<"level">>, <<"a">>>> >>)}

Configs ==
    {NewConfig(i, e, s, c) :
        i \in IncludePatterns, e \in ExcludePatterns,
        s \in SelectorLists, c \in BOOLEAN}
    \cup {WithDebug(NewConfig(i, None, s, FALSE)) :
            i \in {None, Some(<<"a">>)},
            s \in {None, Some(<< <<<<"error", "stack">>, <<"*">>>> >>)}}

\* The entries a decoded JSON object is put together from, in this order.
TimestampEntries == {<<>>, <<Entry(<<"timestamp">>, Str(<<"a">>))>>}

LevelEntries ==
    {<<>>, <<Entry(<<"level">>, Str(<<"A">>))>>, <<Entry(<<"level">>, Str(<<"b">>))>>}

HostEntries ==
    {<<>>, <<Entry(<<"host">>, Str(<<"A">>))>>, <<Entry(<<"host">>, Null)>>}

ErrorEntries ==
    {<<>>,
     <<Entry(<<"error">>, Str(<<"a">>))>>,
     <<Entry(<<"error">>, Obj(<<Entry(<<"stack">>, Str(<<"a">>))>>))>>,
     <<Entry(<<"error">>, Obj(<<Entry(<<"code">>, Num(<<"5">>))>>))>>}

JsonObjects ==
    {Obj(t \o l \o h \o e) :
        t \in TimestampEntries, l \in LevelEntries,
        h \in HostEntries, e \in ErrorEntries}

\* Lines given to check_if_match and print_record: not JSON, JSON that is no
\* object, objects.
Lines ==
    {InvalidLine(<<"a">>), InvalidLine(<<"b", "\n">>), InvalidLine(<<"a", " ", "\n">>),
     JsonLine(Num(<<"5">>)), JsonLine(Null), JsonLine(Bool(TRUE)),
     JsonLine(Str(<<"a">>)), JsonLine(List(<<Str(<<"a">>)>>))}
    \cup {JsonLine(o) : o \in JsonObjects}

Texts == Strings(MaxText)

CtxIdle ==
    /\ before_count = 0
    /\ after_count = 0
    /\ before_buffer = <<>>
    /\ after_counter = 0
    /\ ret = NoReturn
    /\ fed = <<>>
    /\ outs = <<>>

\* The constructor call returned a Config and no line was handled yet.
Constructed == op = "Config" /\ config.error = "none"

\* A Config has been constructed, or its construction raised; nothing has
\* been filtered yet.
FltInit ==
    /\ config \in Configs
    /\ record = NoRecord
    /\ formatted_output = <<>>
    /\ line = NoLine
    /\ op = "Config"
    /\ result = "none"
    /\ skip_filter = FALSE
    /\ console = <<>>
    /\ CtxIdle
    /\ PopIdle
    /\ StatsNew
    /\ LoadIdle
    /\ HlIdle
    /\ RunIdle

\* Record.from_line(data, config) on a decoded object: the record of one
\* direct use of the filters.
from_line(data) ==
    /\ Constructed
    /\ record' = RecordFromLine(data, config)
    /\ formatted_output' = <<>>
    /\ line' = NoLine
    /\ op' = "Record.from_line"
    /\ result' = "none"
    /\ UNCHANGED <<config, skip_filter, console, ctxvars, popvars, stvars, loadvars, hlvars, runvars>>

\* should_include_record(record, text, config); a repeated call is given
\* the arguments of the first.
should_include_record(text) ==
    /\ \/ op = "Record.from_line"
       \/ op = "should_include_record" /\ text = formatted_output
    /\ record' = ShouldIncludeRecord(record, text, config).rec
    /\ result' = BoolStr(ShouldIncludeRecord(record, text, config).result)
    /\ formatted_output' = text
    /\ op' = "should_include_record"
    /\ UNCHANGED <<config, line, skip_filter, console, ctxvars, popvars, stvars, loadvars, hlvars, runvars>>

\* check_if_match(line, console, config)
check_if_match(ln) ==
    /\ Constructed
    /\ record' = CheckIfMatch(ln, config).rec
    /\ formatted_output' = CheckIfMatch(ln, config).text
    /\ result' = CheckIfMatch(ln, config).result
    /\ line' = ln
    /\ op' = "check_if_match"
    /\ UNCHANGED <<config, skip_filter, console, ctxvars, popvars, stvars, loadvars, hlvars, runvars>>

\* print_record(line, console, config, skip_filter=skip)
print_record(ln, skip) ==
    /\ Constructed
    /\ record' = PrintRecord(ln, config, skip).rec
    /\ formatted_output' = PrintRecord(ln, config, skip).text
    /\ result' = PrintRecord(ln, config, skip).result
    /\ console' = PrintRecord(ln, config, skip).console
    /\ line' = ln
    /\ skip_filter' = skip
    /\ op' = "print_record"
    /\ UNCHANGED <<config, ctxvars, popvars, stvars, loadvars, hlvars, runvars>>

FltNext ==
    \/ \E data \in JsonObjects : from_line(data)
    \/ \E text \in Texts : should_include_record(text)
    \/ \E ln \in Lines : check_if_match(ln)
    \/ \E ln \in Lines, skip \in BOOLEAN : print_record(ln, skip)

SpecFilter == FltInit /\ [][FltNext]_vars

\* ============================================================== SpecPopKey

\* The entries a mapping handed to pop_key is put together from.
AEntries ==
    {<<>>} \cup
    {<<Entry(<<"a">>, v)>> :
        v \in {Str(<<>>), Str(<<"a">>), Num(<<"5">>), Null, Bool(FALSE),
               Obj(<<Entry(<<"b">>, Str(<<"b">>))>>), List(<<>>), List(<<Str(<<"a">>)>>)}}

BEntries == {<<>>, <<Entry(<<"b">>, Str(<<>>))>>, <<Entry(<<"b">>, Str(<<"b">>))>>}

ServerEntries ==
    {<<>>} \cup
    {<<Entry(<<"server">>, v)>> :
        v \in {Str(<<"a">>),
               Obj(<<Entry(<<"hostname">>, Str(<<"A">>))>>),
               Obj(<<Entry(<<"hostname">>, Str(<<"A">>)), Entry(<<"port">>, Num(<<"5">>))>>),
               Obj(<<Entry(<<"port">>, Num(<<"5">>)), Entry(<<"hostname">>, Str(<<>>))>>),
               Obj(<<Entry(<<"port">>, Num(<<"5">>))>>)}}

Mappings ==
    {Obj(a \o s \o b \o h) :
        a \in AEntries, s \in ServerEntries, b \in BEntries, h \in HostEntries}

KeyLists ==
    {<<>>, << <<"a">> >>, << <<"a">>, <<"b">> >>, << <<"b">>, <<"a">> >>,
     << <<"server", "hostname">> >>,
     << <<"a">>, <<"server", "hostname">> >>,
     << <<"server", "hostname">>, <<"b">> >>,
     << <<"a">>, <<"b">>, <<"server", "hostname">> >>}

Fallbacks == {<<>>, <<"<fallback>">>}

\* The arguments of one pop_key call.
PopInit ==
    /\ pk_given \in Mappings
    /\ pk_data = pk_given
    /\ pk_keys \in KeyLists
    /\ pk_fallback \in Fallbacks
    /\ pk_value = None
    /\ CtxIdle
    /\ FltIdle
    /\ StatsNew
    /\ LoadIdle
    /\ HlIdle
    /\ RunIdle

\* pop_key(data, keys, fallback)
pop_key ==
    /\ pk_value = None
    /\ pk_data' = PopKey(pk_data, pk_keys, pk_fallback).data
    /\ pk_value' = Some(PopKey(pk_data, pk_keys, pk_fallback).value)
    /\ UNCHANGED <<pk_given, pk_keys, pk_fallback, ctxvars, fltvars, stvars, loadvars, hlvars, runvars>>

PopNext == pop_key

SpecPopKey == PopInit /\ [][PopNext]_vars

\* =============================================================== SpecStats

\* The Statistics object as it is now.
Stats ==
    [total_lines |-> total_lines, parsed_lines |-> parsed_lines,
     parse_errors |-> parse_errors, filtered_lines |-> filtered_lines,
     level_counts |-> level_counts, key_counts |-> key_counts]

\* The records handed to record_line: None for a line that did not parse.
StatRecords ==
    {None} \cup
    {Some([timestamp |-> NoTimestamp, level |-> l, message |-> NoMessage,
           data |-> Obj(h \o e)]) :
        l \in StatLevels \cup {<<>>},
        h \in {<<>>, <<Entry(<<"host">>, Str(<<"A">>))>>},
        e \in {<<>>, <<Entry(<<"error">>, Str(<<"a">>))>>}}

StatsInit ==
    /\ StatsNew
    /\ CtxIdle
    /\ FltIdle
    /\ PopIdle
    /\ LoadIdle
    /\ HlIdle
    /\ RunIdle

\* self.record_line(rec, filtered)
record_line(rec, filtered) ==
    /\ total_lines < MaxCalls
    /\ total_lines' = RecordLine(Stats, rec, filtered).total_lines
    /\ parsed_lines' = RecordLine(Stats, rec, filtered).parsed_lines
    /\ parse_errors' = RecordLine(Stats, rec, filtered).parse_errors
    /\ filtered_lines' = RecordLine(Stats, rec, filtered).filtered_lines
    /\ level_counts' = RecordLine(Stats, rec, filtered).level_counts
    /\ key_counts' = RecordLine(Stats, rec, filtered).key_counts
    /\ st_record' = rec
    /\ st_filtered' = filtered
    /\ UNCHANGED <<ctxvars, fltvars, popvars, loadvars, hlvars, runvars>>

StatsNext == \E rec \in StatRecords, filtered \in BOOLEAN : record_line(rec, filtered)

SpecStats == StatsInit /\ [][StatsNext]_vars

\* ========================================================== SpecLoadConfig

\* What a configuration file may hold for the filter options.
UserConfigs ==
    {[debug |-> FALSE, include_pattern |-> i, exclude_pattern |-> e,
      field_selectors |-> None, case_insensitive |-> c] :
        i \in {None, Some(<<>>), Some(<<"a">>)},
        e \in {None, Some(<<"b">>), Some(<<"[">>)},
        c \in BOOLEAN}

\* What the command line may hand to _load_config.
LoadArgs ==
    {[debug |-> d, include_pattern |-> i, exclude_pattern |-> e,
      field_selectors |-> s, case_insensitive |-> c,
      highlight_patterns |-> h, highlight_case_sensitive |-> hc,
      show_stats |-> f[1], stats_only |-> f[2], stats_json |-> f[3]] :
        d \in BOOLEAN,
        i \in {None, Some(<<>>), Some(<<"b">>), Some(<<"[">>)},
        e \in {None, Some(<<>>), Some(<<"a">>)},
        s \in {None, Some(<< <<<<"level">>, <<"a">>>> >>)},
        c \in BOOLEAN,
        h \in {None, Some(<< <<"a">> >>)},
        hc \in BOOLEAN,
        f \in [1..3 -> BOOLEAN]}

\* The arguments of one _load_config call.
LoadInit ==
    /\ lc_user_config \in UserConfigs
    /\ lc_args \in LoadArgs
    /\ lc_config = NotLoaded
    /\ lc_outcome = "none"
    /\ CtxIdle
    /\ FltIdle
    /\ PopIdle
    /\ StatsNew
    /\ HlIdle
    /\ RunIdle

\* _load_config(config_path, **lc_args)
load_config ==
    /\ lc_outcome = "none"
    /\ lc_config' = LoadConfig(lc_user_config, lc_args)
    /\ lc_outcome' = IF LoadConfig(lc_user_config, lc_args).error = "none"
                     THEN "returned" ELSE "raised"
    /\ UNCHANGED <<lc_user_config, lc_args, ctxvars, fltvars, popvars, stvars,
                   hlvars, runvars>>

LoadNext == load_config

SpecLoadConfig == LoadInit /\ [][LoadNext]_vars

\* =========================================================== SpecHighlight

HlTexts == Strings(MaxHlText)

\* The patterns highlighted: literal text, '' among them.
HlPatterns == {<<>>, <<"a">>, <<"b">>, <<"a", "b">>}

\* The pattern lists: up to two patterns in any order, and one longer than
\* the palette.
HlPatternLists ==
    {<<>>}
    \cup {<<p>> : p \in HlPatterns}
    \cup {<<p, q>> : p, q \in HlPatterns}
    \cup {<< <<"b">>, <<"b">>, <<"b">>, <<"b">>, <<"b">>, <<"b">>, <<"a">> >>}

\* The Config objects the program makes: Config() and what _load_config
\* returns for the highlight flags of the command line.
LoadedHlConfigs ==
    {LoadConfig(EmptyUserConfig,
                [NoOverrides EXCEPT !.highlight_patterns = h,
                                    !.highlight_case_sensitive = hc]) :
        h \in {None} \cup {Some(ps) : ps \in HlPatternLists}, hc \in BOOLEAN}

\* A Config object on which the caller assigned _highlight_res itself: the
\* patterns compiled, with re.IGNORECASE unless case-sensitive.
AssignedHlConfigs ==
    {[FromDict(EmptyUserConfig) EXCEPT
         !.highlight_patterns = SetTo(ps),
         !.highlight_case_sensitive = SetTo(hc),
         !.highlight_res = SetTo([i \in 1..Len(ps) |-> Compile(ps[i], ~hc)])] :
        ps \in HlPatternLists, hc \in BOOLEAN}

\* The arguments of one apply_highlighting call.
HlInit ==
    /\ hl_text \in HlTexts
    /\ hl_config \in LoadedHlConfigs \cup AssignedHlConfigs
    /\ hl_result = NotCalled
    /\ CtxIdle
    /\ FltIdle
    /\ PopIdle
    /\ StatsNew
    /\ LoadIdle
    /\ RunIdle

\* apply_highlighting(hl_text, hl_config)
apply_highlighting ==
    /\ hl_result = NotCalled
    /\ hl_result' = ApplyHighlighting(hl_text, hl_config)
    /\ UNCHANGED <<hl_text, hl_config, ctxvars, fltvars, popvars, stvars,
                   loadvars, runvars>>

HlNext == apply_highlighting

SpecHighlight == HlInit /\ [][HlNext]_vars

\* ================================================================= SpecRun

\* The lines of the input stream.
RunLines == {InvalidLine(<<"a">>), JsonLine(Obj(<<>>))}

RunInputs == UNION {[1..n -> RunLines] : n \in 0..MaxInput}

\* The statistics flags of the command line.
RunOptions ==
    {[show_stats |-> f[1], stats_only |-> f[2], stats_json |-> f[3]] :
        f \in [1..3 -> BOOLEAN]}

\* start is entered: the command line is given and the stream holds its lines.
RunInit ==
    /\ run_options \in RunOptions
    /\ run_config = NotLoaded
    /\ run_stats = FALSE
    /\ run_input \in RunInputs
    /\ run_read = <<>>
    /\ run_pc = "init"
    /\ CtxIdle
    /\ FltIdle
    /\ PopIdle
    /\ StatsNew
    /\ LoadIdle
    /\ HlIdle

\* start up to the loop (scripts.py 150-182): the configuration is loaded
\* and `stats` is a new Statistics object when a statistics flag is read true.
start ==
    /\ run_pc = "init"
    /\ run_config' = LoadConfig(EmptyUserConfig, StartArgs(run_options))
    /\ run_stats' = (~StatsWanted(run_config').raised /\ StatsWanted(run_config').value)
    /\ run_pc' = IF StatsWanted(run_config').raised THEN "AttributeError" ELSE "loop"
    /\ UNCHANGED <<run_options, run_input, run_read, ctxvars, fltvars, popvars,
                   stvars, loadvars, hlvars>>

\* One turn of the loop (scripts.py 185-186): the next line is taken from the
\* stream and handed to print_record.
read_line ==
    /\ run_pc = "loop"
    /\ run_input # <<>>
    /\ run_input' = Tail(run_input)
    /\ run_read' = Append(run_read, Head(run_input))
    /\ run_pc' = IF StartPrintRecord(Head(run_input), run_config, Stats).raised = "none"
                 THEN "loop"
                 ELSE StartPrintRecord(Head(run_input), run_config, Stats).raised
    /\ total_lines' = StartPrintRecord(Head(run_input), run_config, Stats).stats.total_lines
    /\ parsed_lines' = StartPrintRecord(Head(run_input), run_config, Stats).stats.parsed_lines
    /\ parse_errors' = StartPrintRecord(Head(run_input), run_config, Stats).stats.parse_errors
    /\ filtered_lines' = StartPrintRecord(Head(run_input), run_config, Stats).stats.filtered_lines
    /\ level_counts' = StartPrintRecord(Head(run_input), run_config, Stats).stats.level_counts
    /\ key_counts' = StartPrintRecord(Head(run_input), run_config, Stats).stats.key_counts
    /\ UNCHANGED <<run_options, run_config, run_stats, st_record, st_filtered,
                   ctxvars, fltvars, popvars, loadvars, hlvars>>

\* The stream is at its end (scripts.py 188-193): the summary is printed when
\* there is a Statistics object.
print_stats ==
    /\ run_pc = "loop"
    /\ run_input = <<>>
    /\ run_pc' = AfterSummary(run_stats, run_config)
    /\ UNCHANGED <<run_options, run_config, run_stats, run_input, run_read,
                   ctxvars, fltvars, popvars, stvars, loadvars, hlvars>>

RunNext == start \/ read_line \/ print_stats

SpecRun == RunInit /\ [][RunNext]_vars

\* ------------------------------------------------ ContextBuffer: the claims

\* The step is a process_line call with the given is_match.
CallStep(is_match) == Len(fed') = Len(fed) + 1 /\ fed'[Len(fed')] = is_match

LastIs(is_match) == Len(fed) > 0 /\ fed[Len(fed)] = is_match

Range(s) == {s[i] : i \in 1..Len(s)}

\* C1: a matching call, from any reachable state, returns the whole
\* before-queue (oldest first) with should_print = true, leaves the queue
\* empty and sets after_counter to the configured after size.
C1_MatchFlushes ==
    [][CallStep(TRUE) =>
        /\ ret'.lines = before_buffer
        /\ ret'.print = TRUE
        /\ before_buffer' = <<>>
        /\ after_counter' = after_count]_vars

\* A match that flushed two buffered lines, followed by a second match that
\* arrived while after_counter > 0.
C1_Witness ==
    /\ Len(fed) >= 4
    /\ after_count > 0
    /\ fed[Len(fed)] /\ fed[Len(fed) - 1]
    /\ outs[Len(fed) - 1].lines = <<Len(fed) - 3, Len(fed) - 2>>
    /\ ret = [lines |-> <<>>, print |-> TRUE]
    /\ after_counter = after_count

\* C2: of k consecutive non-matching lines right after a match exactly the
\* first min(k, after) are printed; and the before=2, after=1 round trip
\* non-match, non-match, match, non-match, non-match returns
\* ([], F), ([], F), ([1, 2], T), ([], T), ([], F).
C2_AfterWindow ==
    /\ \A i \in 1..Len(fed) : fed[i] =>
          \A j \in (i + 1)..Len(fed) :
              (\A k \in (i + 1)..j : ~fed[k]) =>
                  /\ outs[j].print <=> (j - i <= after_count)
                  /\ outs[j].lines = <<>>
    /\ (/\ before_count = 2
        /\ after_count = 1
        /\ fed = <<FALSE, FALSE, TRUE, FALSE, FALSE>>)
       => outs = << [lines |-> <<>>, print |-> FALSE],
                    [lines |-> <<>>, print |-> FALSE],
                    [lines |-> <<1, 2>>, print |-> TRUE],
                    [lines |-> <<>>, print |-> TRUE],
                    [lines |-> <<>>, print |-> FALSE] >>

C2_Witness ==
    /\ before_count = 2
    /\ after_count = 1
    /\ fed = <<FALSE, FALSE, TRUE, FALSE, FALSE>>
    /\ ret = [lines |-> <<>>, print |-> FALSE]

\* Line j was emitted: printed at its own step, or returned as a before-line
\* by a later call.
Emitted(j) ==
    \/ outs[j].print
    \/ \E m \in (j + 1)..Len(outs) : j \in Range(outs[m].lines)

MatchWithinBefore(j) ==
    \E i \in (j - after_count)..(j - 1) : i >= 1 /\ fed[i]

MatchWithinAfter(j) ==
    \E m \in (j + 1)..(j + before_count) : m <= Len(fed) /\ fed[m]

\* C3: every matching line is printed, and a non-matching line is emitted
\* iff a match lies among the `after` lines just before it or among the
\* `before` lines just after it.
C3_ContextWindow ==
    \A j \in 1..Len(fed) :
        /\ fed[j] => outs[j].print
        /\ ~fed[j] => (Emitted(j) <=> (MatchWithinBefore(j) \/ MatchWithinAfter(j)))

\* One run with a line evicted from the queue and never emitted, a line
\* flushed as before-context and a line printed as after-context.
C3_Witness ==
    /\ before_count = 1
    /\ after_count = 1
    /\ fed = <<FALSE, FALSE, TRUE, FALSE, FALSE>>
    /\ ~Emitted(1) /\ Emitted(2) /\ Emitted(4) /\ ~Emitted(5)

\* C4: a non-matching call while after_counter > 0 decrements after_counter
\* by one, returns ([], true) and leaves the before-queue unchanged.
C4_AfterContextStep ==
    [][(CallStep(FALSE) /\ after_counter > 0) =>
        /\ after_counter' = after_counter - 1
        /\ ret' = [lines |-> <<>>, print |-> TRUE]
        /\ before_buffer' = before_buffer]_vars

\* An after-context line printed by a buffer that also keeps before-context.
C4_Witness ==
    /\ LastIs(FALSE)
    /\ before_count > 0
    /\ after_count = 2
    /\ after_counter = 1
    /\ ret = [lines |-> <<>>, print |-> TRUE]
    /\ before_buffer = <<>>

\* C5: a non-matching call while after_counter = 0 returns ([], false) and
\* leaves after_counter at 0; with before > 0 the line is appended at the
\* tail and, when the queue already held `before` lines, the oldest is
\* dropped; with before = 0 the queue stays empty.
C5_BufferStep ==
    [][(CallStep(FALSE) /\ after_counter = 0) =>
        /\ ret' = [lines |-> <<>>, print |-> FALSE]
        /\ after_counter' = 0
        /\ before_count > 0 =>
             before_buffer' =
                 IF Len(before_buffer) = before_count
                 THEN Append(Tail(before_buffer), Len(fed) + 1)
                 ELSE Append(before_buffer, Len(fed) + 1)
        /\ before_count = 0 => before_buffer' = <<>>]_vars

\* A full queue that dropped its oldest line.
C5_Witness ==
    /\ before_count = 2
    /\ fed = <<FALSE, FALSE, FALSE>>
    /\ before_buffer = <<2, 3>>
    /\ ret = [lines |-> <<>>, print |-> FALSE]
    /\ after_counter = 0

\* --------------------------------------------------- filters: the claims

\* The selectors a Config was given, as a list (None counts as empty).
Selectors(cfg) == IF IsSome(cfg.field_selectors) THEN Val(cfg.field_selectors) ELSE <<>>

Canonical == {<<"timestamp">>, <<"level">>, <<"message">>}

\* What a key addresses in the record's remaining fields: a dotted key by
\* traversal, a plain key by lookup.
Addressed(rec, key) ==
    IF IsDotted(key) THEN DottedGet(rec.data.d, key) ELSE DictGet(rec.data.d, key)

\* The key is a canonical field name or addresses a value in the fields.
Resolves(rec, key) == key \in Canonical \/ Addressed(rec, key).t # "null"

\* The text a resolved key stands for.
FieldText(rec, key) ==
    CASE key = <<"timestamp">> -> rec.timestamp
      [] key = <<"level">> -> rec.level
      [] key = <<"message">> -> rec.message
      [] OTHER -> PyStr(Addressed(rec, key))

\* Every configured selector resolves and glob-matches, case-insensitively.
EverySelectorMatches(rec, cfg) ==
    \A i \in 1..Len(Selectors(cfg)) :
        /\ Resolves(rec, Selectors(cfg)[i][1])
        /\ FnMatch(Lower(FieldText(rec, Selectors(cfg)[i][1])),
                   Lower(Selectors(cfg)[i][2]))

\* The pattern (None, or '' for "not configured") occurs in the text, case
\* ignored when the flag says so.
PatternFound(pattern, cfg, text) ==
    /\ Truthy(pattern)
    /\ \E i \in 1..(Len(text) + 1), j \in 0..Len(text) :
          LET piece == SubSeq(text, i, j)
          IN IF cfg.case_insensitive
             THEN Lower(piece) = Lower(Val(pattern))
             ELSE piece = Val(pattern)

Called == op = "should_include_record"

\* C6: should_include_record returns true iff every field selector resolves
\* and glob-matches, the include regex is absent or matches the text, and
\* the exclude regex is absent or does not match it (exclude wins).
C6_FilterVerdict ==
    Called =>
        (result = "True" <=>
            /\ EverySelectorMatches(record, config)
            /\ ~Truthy(config.include_pattern)
               \/ PatternFound(config.include_pattern, config, formatted_output)
            /\ ~PatternFound(config.exclude_pattern, config, formatted_output))

\* A record whose selectors pass and whose text matches include and exclude.
C6_Witness ==
    /\ Called
    /\ Len(Selectors(config)) = 2
    /\ EverySelectorMatches(record, config)
    /\ PatternFound(config.include_pattern, config, formatted_output)
    /\ PatternFound(config.exclude_pattern, config, formatted_output)
    /\ result = "False"

\* No selector, no include pattern, no exclude pattern; '' counts as none.
NothingConfigured(cfg) ==
    /\ ~Truthy(cfg.field_selectors)
    /\ ~Truthy(cfg.include_pattern)
    /\ ~Truthy(cfg.exclude_pattern)

\* C7: with nothing configured should_include_record returns true for every
\* record and text, and check_if_match returns true for every line, lines
\* that are not valid JSON included.
C7_NoFiltersPassAll ==
    (NothingConfigured(config) /\ op \in {"should_include_record", "check_if_match"})
        => result = "True"

\* An undecodable line matched under a Config given empty-string patterns.
C7_Witness ==
    /\ op = "check_if_match"
    /\ ~line.valid
    /\ config.include_pattern = Some(<<>>)
    /\ config.exclude_pattern = Some(<<>>)
    /\ config.field_selectors = Some(<<>>)
    /\ result = "True"

\* A canonical field that no fallback key supplied holds its sentinel.
Unsupplied(rec, key) ==
    \/ key = <<"timestamp">> /\ rec.timestamp = NoTimestamp
    \/ key = <<"level">> /\ rec.level = <<>>
    \/ key = <<"message">> /\ rec.message = NoMessage

\* C8 as stated: a selector whose key is absent from the fields, stops at a
\* partial path or a non-mapping, or names a canonical field that no fallback
\* key supplied, makes should_include_record return false.
C8_Original ==
    (Called /\ \E i \in 1..Len(Selectors(config)) :
                  \/ ~Resolves(record, Selectors(config)[i][1])
                  \/ Unsupplied(record, Selectors(config)[i][1]))
        => result = "False"

\* C8, amended: a selector whose key is not timestamp/level/message and does
\* not resolve in the remaining fields makes should_include_record return
\* false whatever its pattern.
C8_UnresolvedRejects ==
    (Called /\ \E i \in 1..Len(Selectors(config)) :
                  ~Resolves(record, Selectors(config)[i][1]))
        => result = "False"

\* A partial dotted path under the pattern '*', with no regex to reject.
C8_Witness ==
    /\ Called
    /\ config.field_selectors = Some(<< <<<<"error", "stack">>, <<"*">>>> >>)
    /\ DictGet(record.data.d, <<"error">>).t = "obj"
    /\ ~Resolves(record, <<"error", "stack">>)
    /\ ~Truthy(config.include_pattern)
    /\ ~Truthy(config.exclude_pattern)
    /\ result = "False"

\* C9: field selectors glob-match the stringified value case-insensitively
\* whatever case_insensitive is: level=a keeps a record whose level is 'A'
\* with case_insensitive = false.
C9_SelectorIgnoresCase ==
    (/\ Called
     /\ ~Truthy(config.include_pattern)
     /\ ~Truthy(config.exclude_pattern)
     /\ \A i \in 1..Len(Selectors(config)) : Resolves(record, Selectors(config)[i][1]))
        => (result = "True" <=>
               \A i \in 1..Len(Selectors(config)) :
                   FnMatch(Lower(FieldText(record, Selectors(config)[i][1])),
                           Lower(Selectors(config)[i][2])))

C9_Witness ==
    /\ Called
    /\ config.field_selectors = Some(<< <<<<"level">>, <<"a">>>> >>)
    /\ record.level = <<"A">>
    /\ ~config.case_insensitive
    /\ ~Truthy(config.include_pattern)
    /\ ~Truthy(config.exclude_pattern)
    /\ result = "True"

\* C10: a should_include_record call changes neither the record nor the
\* config, and a repeated call with the same arguments returns the same.
C10_Pure ==
    [][op' = "should_include_record" =>
        /\ record' = record
        /\ config' = config
        /\ Called => result' = result]_vars

\* A call whose selector looked a nested value up in the record's fields.
C10_Witness ==
    /\ Called
    /\ config.field_selectors = Some(<< <<<<"error", "stack">>, <<"?">>>> >>)
    /\ Resolves(record, <<"error", "stack">>)
    /\ result = "True"

\* ------------------------------------------------- the pipeline: the claims

Printed == op = "print_record"

Matched == op = "check_if_match"

\* printed is raw without its trailing whitespace, and nothing else.
Verbatim(raw, printed) ==
    /\ Len(printed) <= Len(raw)
    /\ \A i \in 1..Len(printed) : printed[i] = raw[i]
    /\ \A i \in (Len(printed) + 1)..Len(raw) : raw[i] \in {" ", "\n"}
    /\ printed = <<>> \/ printed[Len(printed)] \notin {" ", "\n"}

\* C11: for a line that is not valid JSON, print_record with debug off
\* prints exactly that line, trailing whitespace stripped, and returns true,
\* under every filter configuration and either value of skip_filter.
C11_InvalidLinePrinted ==
    (Printed /\ ~line.valid /\ ~config.debug)
        => /\ result = "True"
           /\ Len(console) = 1
           /\ Verbatim(line.raw, console[1])

\* An undecodable line that every configured filter would reject as text.
C11_Witness ==
    /\ Printed
    /\ line = InvalidLine(<<"b", "\n">>)
    /\ config.include_pattern = Some(<<"a">>)
    /\ config.exclude_pattern = Some(<<"b">>)
    /\ Truthy(config.field_selectors)
    /\ ~config.debug
    /\ ~skip_filter
    /\ result = "True"
    /\ console = << <<"b">> >>

\* C12 as stated: check_if_match returns true for a line that fails JSON
\* decoding, under every filter configuration.
C12_Original == (Matched /\ ~line.valid) => result = "True"

\* C12, amended: for a line that fails JSON decoding check_if_match returns
\* true when no filter is configured and false when any filter is.
C12_InvalidLineMatch ==
    (Matched /\ ~line.valid)
        => result = IF NothingConfigured(config) THEN "True" ELSE "False"

\* An undecodable line under a configured exclude pattern it does not contain.
C12_Witness ==
    /\ Matched
    /\ line = InvalidLine(<<"a">>)
    /\ config.exclude_pattern = Some(<<"b">>)
    /\ ~Truthy(config.include_pattern)
    /\ ~Truthy(config.field_selectors)
    /\ result = "False"

\* C13: print_record returns normally for every input line: invalid JSON,
\* valid JSON that is no object, objects with missing or wrong-typed fields.
C13_NeverRaises == Printed => result \in {"True", "False"}

\* A pattern that is configured and is no regular expression.
Uncompilable(pattern) == Truthy(pattern) /\ ~ValidRegex(Val(pattern))

\* C14: constructing a Config whose include_pattern or exclude_pattern is no
\* valid regular expression raises re.error at construction, so no line is
\* ever evaluated against such a pattern.
C14_BadRegexFailsConstruction ==
    (Uncompilable(config.include_pattern) \/ Uncompilable(config.exclude_pattern))
        => (config.error = "re.error" /\ op = "Config")

\* A valid include pattern beside an exclude pattern that does not compile.
C14_Witness ==
    /\ config.include_pattern = Some(<<"a">>)
    /\ config.exclude_pattern = Some(<<"[">>)
    /\ config.error = "re.error"
    /\ op = "Config"

\* ------------------------------------------------------ pop_key: the claims

\* pop_key has returned.
Returned == pk_value # None

\* What the candidate key addresses in the mapping as it was handed over.
Given(key) == DottedGetValue(pk_given, key)

\* The candidate holds a non-empty string or a list.
Supplies(key) ==
    \/ Given(key).t = "str" /\ Given(key).s # <<>>
    \/ Given(key).t = "list"

Supplying == {i \in 1..Len(pk_keys) : Supplies(pk_keys[i])}

\* The leftmost candidate that supplies a value.
First == CHOOSE i \in Supplying : \A j \in Supplying : i <= j

\* The value of the leftmost supplying candidate, a list as Python displays
\* it; the fallback when there is none.
Expected == IF Supplying = {} THEN pk_fallback ELSE PyStr(Given(pk_keys[First]))

\* C15: pop_key returns the value of the first key that holds a non-empty
\* string (or a list, as its display string), removes that key from the
\* mapping and leaves every other key untouched; when no key resolves it
\* returns the fallback.
C15_FirstKeyPopped ==
    Returned =>
        /\ Val(pk_value) = Expected
        /\ Supplying # {} => pk_data = Obj(DottedRemove(pk_given.d, pk_keys[First]))

\* C16: a candidate key holding the empty string is treated as absent:
\* pop_key falls through to the next candidate and never returns the empty
\* string taken from a candidate key.
C16_EmptyStringFallsThrough ==
    (Returned /\ \E i \in 1..Len(pk_keys) : Given(pk_keys[i]) = Str(<<>>))
        => /\ Val(pk_value) = Expected
           /\ Val(pk_value) = <<>> => (Supplying = {} /\ pk_fallback = <<>>)

\* 'a' holds '', the next candidate 'b' supplies the value.
C16_Witness ==
    /\ Returned
    /\ pk_keys = << <<"a">>, <<"b">> >>
    /\ Given(<<"a">>) = Str(<<>>)
    /\ DictHas(pk_given.d, <<"a">>)
    /\ Val(pk_value) = <<"b">>

\* The candidate is there and holds a number, a boolean, null or an object.
WrongTyped(key) ==
    DottedPresent(pk_given, key) /\ Given(key).t \in {"num", "bool", "null", "obj"}

\* C17: a candidate key holding a number, boolean, null or object does not
\* satisfy the field: pop_key falls through to the next candidate or the
\* fallback, and the key stays in the mapping with its value.
C17_WrongTypedFallsThrough ==
    Returned =>
        \A i \in 1..Len(pk_keys) :
            WrongTyped(pk_keys[i])
                => /\ Val(pk_value) = Expected
                   /\ DottedPresent(pk_data, pk_keys[i])
                   /\ DottedGetValue(pk_data, pk_keys[i]) = Given(pk_keys[i])

\* 'a' holds null and nothing else supplies a value: the fallback comes
\* back and 'a' is still there.
C17_Witness ==
    /\ Returned
    /\ pk_keys = << <<"a">>, <<"b">> >>
    /\ DictHas(pk_given.d, <<"a">>)
    /\ Given(<<"a">>) = Null
    /\ Val(pk_value) = <<"<fallback>">>
    /\ DictHas(pk_data.d, <<"a">>)

\* C18: resolving the dotted candidate 'server.hostname' returns the nested
\* string and removes only the leaf 'hostname' from its parent: 'server'
\* stays in the mapping with all its other keys.
C18_DottedLeafRemoved ==
    (Returned /\ Supplying # {} /\ pk_keys[First] = <<"server", "hostname">>)
        => /\ Val(pk_value) = DictGet(DictGet(pk_given.d, <<"server">>).d, <<"hostname">>).s
           /\ DictHas(pk_data.d, <<"server">>)
           /\ DictGet(pk_data.d, <<"server">>)
                  = Obj(DictRemove(DictGet(pk_given.d, <<"server">>).d, <<"hostname">>))

\* {"server": {"hostname": "A", "port": 5}}: 'A' comes back, port stays.
C18_Witness ==
    /\ Returned
    /\ pk_keys = << <<"server", "hostname">> >>
    /\ Val(pk_value) = <<"A">>
    /\ DictGet(pk_data.d, <<"server">>) = Obj(<<Entry(<<"port">>, Num(<<"5">>))>>)

\* --------------------------------------------------- Statistics: the claims

\* C19: after any sequence of record_line calls, total_lines = parsed_lines
\* + parse_errors and parsed_lines >= filtered_lines.
C19_Conservation ==
    /\ total_lines = parsed_lines + parse_errors
    /\ parsed_lines >= filtered_lines

\* Calls of all three kinds have been made.
C19_Witness ==
    /\ total_lines >= 3
    /\ parse_errors > 0
    /\ filtered_lines > 0
    /\ parsed_lines > filtered_lines

\* The step took the parse-error branch and nothing else changed.
ParseErrorStep ==
    /\ st_record' = None
    /\ parse_errors' = parse_errors + 1
    /\ UNCHANGED <<parsed_lines, filtered_lines, level_counts, key_counts>>

\* The step took the filtered branch; the tables did not change.
FilteredStep ==
    /\ st_record' # None /\ st_filtered'
    /\ filtered_lines' = filtered_lines + 1
    /\ parsed_lines' = parsed_lines + 1
    /\ UNCHANGED <<parse_errors, level_counts, key_counts>>

\* The step took the kept branch: the record's level, when not empty, and
\* every key of its remaining fields were counted once.
KeptStep ==
    /\ st_record' # None /\ ~st_filtered'
    /\ parsed_lines' = parsed_lines + 1
    /\ UNCHANGED <<parse_errors, filtered_lines>>
    /\ level_counts' =
          [l \in StatLevels |->
              level_counts[l] + IF l = Val(st_record').level THEN 1 ELSE 0]
    /\ key_counts' =
          [k \in StatKeys |->
              key_counts[k] + IF DictHas(Val(st_record').data.d, k) THEN 1 ELSE 0]

\* C20: each record_line call increases total_lines by exactly 1 and takes
\* exactly one branch: parse error, filtered, or kept, with the increments
\* of that branch and no others; no counter ever decreases.
C20_OneBranchPerCall ==
    [][/\ total_lines' = total_lines + 1
       /\ ParseErrorStep \/ FilteredStep \/ KeptStep
       /\ parsed_lines' >= parsed_lines /\ parse_errors' >= parse_errors
       /\ filtered_lines' >= filtered_lines
       /\ \A l \in StatLevels : level_counts'[l] >= level_counts[l]
       /\ \A k \in StatKeys : key_counts'[k] >= key_counts[k]]_vars

\* A kept record with a level and two keys, after a parse error.
C20_Witness ==
    /\ total_lines = 2
    /\ parse_errors = 1
    /\ st_record # None /\ ~st_filtered
    /\ level_counts[<<"a">>] = 1
    /\ key_counts[<<"host">>] = 1 /\ key_counts[<<"error">>] = 1

\* ----------------------------------------- ContextBuffer: the queue's claims

\* The position of the most recent match, 0 when there was none.
LastMatch == IF \E i \in 1..Len(fed) : fed[i]
             THEN CHOOSE i \in 1..Len(fed) : fed[i] /\ \A j \in (i + 1)..Len(fed) : ~fed[j]
             ELSE 0

\* The last min(B, n) of the n lines first..Len(fed), oldest first.
LastOf(first) ==
    LET n == IF Len(fed) >= first THEN Len(fed) - first + 1 ELSE 0
        kept == IF before_count < n THEN before_count ELSE n
    IN [i \in 1..kept |-> Len(fed) - kept + i]

\* C24 as stated: the before-queue holds exactly the last min(B, n)
\* non-matching lines fed since the most recent match, oldest first.
C24_Original == before_buffer = LastOf(LastMatch + 1)

\* The first line after the most recent match's after-window.
AfterWindowEnd == IF LastMatch = 0 THEN 1 ELSE LastMatch + after_count + 1

\* C24, amended: the before-queue holds exactly the last min(B, n) lines,
\* oldest first, of the n non-matching lines fed since the most recent match
\* that were not printed as its after-context.
C24_QueueContents == before_buffer = LastOf(AfterWindowEnd)

\* A match, its after-context line, then three lines of which the queue
\* keeps the last two.
C24_Witness ==
    /\ before_count = 2
    /\ after_count = 1
    /\ fed = <<TRUE, FALSE, FALSE, FALSE, FALSE>>
    /\ before_buffer = <<4, 5>>

\* C29: the before-queue holds at most B lines (none when B = 0) and
\* 0 <= after_counter <= A.
C29_Bounds ==
    /\ Len(before_buffer) <= before_count
    /\ 0 <= after_counter
    /\ after_counter <= after_count

\* A full queue of one line after three non-matching lines.
C29_Witness ==
    /\ before_count = 1
    /\ after_count = 2
    /\ fed = <<TRUE, FALSE, FALSE, FALSE, FALSE, FALSE>>
    /\ before_buffer = <<6>>
    /\ after_counter = 0

\* The lines emitted by the calls 1..n, in the order they are emitted: each
\* call's before-lines, then its own line when it is printed.
RECURSIVE EmittedUpTo(_)
EmittedUpTo(n) ==
    IF n = 0 THEN <<>>
    ELSE EmittedUpTo(n - 1) \o outs[n].lines \o (IF outs[n].print THEN <<n>> ELSE <<>>)

\* C30: one ContextBuffer emits each input line at most once, and the
\* emitted lines appear in input order.
C30_EmittedOnceInOrder ==
    \A i, j \in 1..Len(EmittedUpTo(Len(outs))) :
        i < j => EmittedUpTo(Len(outs))[i] < EmittedUpTo(Len(outs))[j]

\* Two matches, each of which flushed one buffered line.
C30_Witness ==
    /\ before_count = 1
    /\ after_count = 0
    /\ fed = <<FALSE, TRUE, TRUE, FALSE, TRUE>>
    /\ EmittedUpTo(Len(outs)) = <<1, 2, 3, 4, 5>>

\* ------------------------------------------- pop_key: what a call removes

\* C25: pop_key removes from the mapping only the leaf key whose value it
\* returns: a candidate that is tried and does not supply the result leaves
\* the mapping as it was, and when the fallback is returned the mapping is
\* unchanged.
C25_OnlyReturnedLeafRemoved ==
    Returned =>
        pk_data = IF Supplying = {}
                  THEN pk_given
                  ELSE Obj(DottedRemove(pk_given.d, pk_keys[First]))

\* ------------------------------------- the pipeline: selectors and agreement

\* The line decoded to a JSON object.
ObjectLine == line.valid /\ line.value.t = "obj"

\* The only filter is one selector, on a dotted key, and the line as given
\* holds at that key a non-empty string that glob-matches its pattern.
DottedSelectorMatchesLine ==
    /\ ObjectLine
    /\ ~Truthy(config.include_pattern)
    /\ ~Truthy(config.exclude_pattern)
    /\ Len(Selectors(config)) = 1
    /\ IsDotted(Selectors(config)[1][1])
    /\ DottedGetValue(line.value, Selectors(config)[1][1]).t = "str"
    /\ DottedGetValue(line.value, Selectors(config)[1][1]).s # <<>>
    /\ FnMatch(Lower(DottedGetValue(line.value, Selectors(config)[1][1]).s),
               Lower(Selectors(config)[1][2]))

\* C26: a field selector whose dotted key addresses a non-empty nested
\* string that glob-matches its pattern keeps the record in print_record and
\* check_if_match, also when the key is listed in keys.on_own_line and was
\* promoted before the filters ran.
C26_DottedSelectorKeeps ==
    (DottedSelectorMatchesLine /\ (Matched \/ (Printed /\ ~skip_filter)))
        => result = "True"

\* C28: for a line that decodes to a JSON object check_if_match returns the
\* same boolean as print_record with skip_filter false, under every config.
C28_MatchAgreesWithPrint ==
    (Printed /\ ~skip_filter /\ ObjectLine)
        => result = CheckIfMatch(line, config).result

\* A record that the include pattern rejects in both.
C28_Witness ==
    /\ Printed /\ ~skip_filter /\ ObjectLine
    /\ config.include_pattern = Some(<<"a">>)
    /\ ~Truthy(config.exclude_pattern)
    /\ ~Truthy(config.field_selectors)
    /\ result = "False"
    /\ console = <<>>

\* ------------------------------------------------- _load_config: the claims

\* _load_config has returned a Config.
Loaded == lc_outcome = "returned"

\* The compiled regex is set exactly when the pattern is a non-empty string,
\* and is that pattern compiled with the given flag.
CompiledFrom(compiled, pattern, case_insensitive) ==
    IF Truthy(pattern) THEN compiled = Some(Compile(Val(pattern), case_insensitive))
    ELSE compiled = None

\* C27: after _load_config returns, _include_re (and _exclude_re) is set
\* exactly when the final pattern is a non-empty string, and is the final
\* pattern compiled with the final case_insensitive flag; no compiled regex
\* of an overridden pattern survives.
C27_CompiledFollowsFinalPattern ==
    Loaded =>
        /\ CompiledFrom(lc_config.include_re, lc_config.include_pattern,
                        lc_config.case_insensitive)
        /\ CompiledFrom(lc_config.exclude_re, lc_config.exclude_pattern,
                        lc_config.case_insensitive)

\* ------------------------------------------------- highlighter: the claims

\* apply_highlighting has been called.
Highlighted == hl_result # NotCalled

\* The highlight patterns configured on the object: none when the attribute
\* was never assigned.
ConfiguredPatterns ==
    IF IsSet(hl_config.highlight_patterns) THEN Val(hl_config.highlight_patterns)
    ELSE <<>>

\* C22: with no highlight patterns configured (a default Config() included)
\* apply_highlighting returns the input text itself, as a plain string with
\* no styling wrapper.
C22_NoPatternsReturnsText ==
    (Highlighted /\ ConfiguredPatterns = <<>>)
        => hl_result = [kind |-> "str", plain |-> hl_text, spans |-> <<>>]

\* The compiled form of configured pattern i (counting from 0): ignoring
\* case unless highlight_case_sensitive was set.
ConfiguredRe(i) ==
    Compile(ConfiguredPatterns[i + 1],
            ~(IsSet(hl_config.highlight_case_sensitive)
              /\ Val(hl_config.highlight_case_sensitive)))

\* Character k of the text (counting from 0) lies in a match of pattern i.
InMatchOf(i, k) ==
    \E m \in 1..Len(FindIter(ConfiguredRe(i), hl_text, 0)) :
        /\ FindIter(ConfiguredRe(i), hl_text, 0)[m].start <= k
        /\ k < FindIter(ConfiguredRe(i), hl_text, 0)[m].end

\* The patterns that have a match covering character k.
Covering(k) == {i \in 0..(Len(ConfiguredPatterns) - 1) : InMatchOf(i, k)}

SetMax(S) == CHOOSE x \in S : \A y \in S : y <= x

\* The style in effect on character k of the result: that of the last span
\* applied that covers it.
StyleAt(k) ==
    LET over == {s \in 1..Len(hl_result.spans) :
                    hl_result.spans[s].start <= k /\ k < hl_result.spans[s].end}
    IN IF over = {} THEN "none" ELSE hl_result.spans[SetMax(over)].style

\* C23: with patterns p0..pn configured the plain text of the result is the
\* input, and every character in a match of some pattern carries palette
\* colour (i mod 6) of the last such pattern i, any other character no style.
C23_LaterPatternWins ==
    (Highlighted /\ ConfiguredPatterns # <<>>)
        => /\ hl_result.kind = "Text"
           /\ hl_result.plain = hl_text
           /\ \A k \in 0..(Len(hl_text) - 1) :
                 StyleAt(k) = IF Covering(k) = {} THEN "none"
                              ELSE HIGHLIGHT_COLORS[(SetMax(Covering(k)) % 6) + 1]

\* ------------------------------------------------------- start: the claims

\* A statistics flag was given on the command line.
StatsEnabled ==
    run_options.show_stats \/ run_options.stats_only \/ run_options.stats_json

\* How many of the lines read so far did not decode.
MalformedRead == Cardinality({i \in 1..Len(run_read) : ~run_read[i].valid})

\* C21: with statistics enabled every line the run driver has taken from the
\* input is recorded in the Statistics object exactly once: total_lines is
\* the number of lines read and parse_errors the number of malformed ones.
C21_EveryLineRecorded ==
    (StatsEnabled /\ run_pc # "idle")
        => total_lines = Len(run_read) /\ parse_errors = MalformedRead

====
